---- MODULE Spec2Model ----
(***************************************************************************)
(* Model of the model assemblers of deepctr_torch: DCN, FiBiNET, xDeepFM.  *)
(* An assembler is constructed from its arguments (__init__) and then      *)
(* called any number of times (forward); between calls an optimizer may    *)
(* update the parameter values.  Tensors are represented by their width    *)
(* (last dimension after flattening) and by an integer standing for their  *)
(* content; errors by the name of the exception raised.                    *)
(***************************************************************************)
EXTENDS Integers, Sequences, FiniteSets, TLC

\* ------------------------------------------------------------------ bounds
MaxHiddenLayers == 2   \* longest dnn_hidden_units
MaxCross == 1          \* largest cross_num
MaxCinLayers == 3      \* longest cin_layer_size
MaxCinSize == 3        \* largest feature-map count of a CIN layer
MaxFields == 3         \* most sparse feature columns
MaxDense == 1          \* most dense feature columns
MaxEmbed == 2          \* largest embedding_size
MaxLinear == 1         \* most linear feature columns
MaxSteps == 1          \* optimizer steps taken between forward calls

\* ----------------------------------------------------------------- helpers
SeqsUpTo(S, n) == UNION {[1..k -> S] : k \in 0..n}

RECURSIVE sum(_)
sum(s) == IF Len(s) = 0 THEN 0 ELSE s[1] + sum(Tail(s))

\* s[:-1]
AllButLast(s) == IF Len(s) = 0 THEN <<>> ELSE SubSeq(s, 1, Len(s) - 1)

\* dnn_hidden_units of every length, layer i being i + 1 units wide
HiddenUnitLists == {[i \in 1..k |-> i + 1] : k \in 0..MaxHiddenLayers}
\* cin_layer_size: layers of at least two feature maps, so that a half exists
CinLayerSizes == SeqsUpTo(2..MaxCinSize, MaxCinLayers)
\* the dimensions of the dense feature columns, column i having dimension i
DenseColumns == {[i \in 1..k |-> i] : k \in 0..MaxDense}
BilinearTypes == {"all", "each", "interaction"}
DropoutRates == {0, 5}          \* dnn_dropout in tenths: 0 and 0.5
Inputs == {1, 2}                \* two different input batches X
Kinds == {"DCN", "FiBiNET", "xDeepFM"}

DefaultEmbeddingSize == 8   \* embedding_size=8 in the signatures

VARIABLES
    kind,        \* class being constructed: "none" before any constructor ran
    cfg,         \* the constructor's arguments
    status,      \* "none" | "constructed" | "failed"
    ctor_err,    \* exception raised by __init__, "none" if it returned
    self,        \* attributes __init__ set on the object
    params,      \* version of the parameter values (changed by the optimizer)
    call,        \* the last forward call: what it invoked and returned
    first_pred,  \* the first prediction any forward call returned, and for what
    ever_invoked \* sub-components invoked by any forward call so far

vars == <<kind, cfg, status, ctor_err, self, params, call, first_pred, ever_invoked>>

\* ------------------------------------------------------- records and blanks
NoCfg ==
    [dnn_hidden_units |-> <<>>, cross_num |-> 0, cin_layer_size |-> <<>>,
     cin_split_half |-> FALSE, n_linear |-> 0, n_sparse |-> 0,
     dense_dims |-> <<>>, embedding_size |-> 1, bilinear_type |-> "all",
     dnn_dropout |-> 0]

NoSelf ==
    [dnn_hidden_units |-> <<>>, cross_num |-> 0, cin_layer_size |-> <<>>,
     n_linear |-> 0, n_dnn |-> 0, filed_size |-> 0,
     dnn_inputs_dim |-> -1, dnn_linear_in_feature |-> -1,
     featuremap_num |-> -1,
     has_crossnet |-> FALSE, crossnet_layer_num |-> 0,
     has_cin |-> FALSE, reg |-> {}]

NoCall ==
    [done |-> FALSE, after_first |-> FALSE, X |-> 0, params |-> 0, err |-> "none",
     reached_chain |-> FALSE, branch |-> "none", invoked |-> {},
     terms |-> {}, linear_logit |-> 0, dnn_logit |-> 0, cin_logit |-> 0,
     cross_out |-> 0, final_logit |-> 0, has_pred |-> FALSE,
     y_pred |-> [activation |-> "none", of |-> 0],
     dnn_in_width |-> -1, cin_out_width |-> -1, head_in_width |-> -1]

NoPred == [seen |-> FALSE, X |-> 0, params |-> 0, y |-> [activation |-> "none", of |-> 0]]

\* ------------------------------------------- collaborators outside the models
\* BaseModel.compute_input_dim: every sparse column contributes one embedding
\* of embedding_size values, every dense column its dimension.
InputDim(c) == c.n_sparse * c.embedding_size + sum(c.dense_dims)

\* len(dnn_feature_columns)
NumDnnColumns(c) == c.n_sparse + Len(c.dense_dims)

\* input_from_feature_columns: one embedding per sparse column.
NumEmbeddings(c) == c.n_sparse

\* DNN: a tower of Linear layers; its output has the width of its last layer.
DNNOutWidth(inputs_dim, hidden_units) ==
    IF Len(hidden_units) = 0 THEN inputs_dim ELSE hidden_units[Len(hidden_units)]

\* BilinearInteraction: one product vector of width E for every unordered
\* pair of fields i < j; the policy selects the weight W that transforms v_i.
BilinearProducts(F, bilinear_type) ==
    LET pairs == {q \in (1..F) \X (1..F) : q[1] < q[2]}
    IN CASE bilinear_type = "all" -> {[pair |-> q, W |-> <<0, 0>>] : q \in pairs}
         [] bilinear_type = "each" -> {[pair |-> q, W |-> <<q[1], 0>>] : q \in pairs}
         [] bilinear_type = "interaction" -> {[pair |-> q, W |-> q] : q \in pairs}

BilinearOutWidth(F, E, bilinear_type) ==
    Cardinality(BilinearProducts(F, bilinear_type)) * E

\* CIN: every layer pools the rows it does not forward.  With split_half a
\* layer k < K forwards half of its H_k rows and pools the other half; the
\* last layer, and every layer without split_half, pools all H_k rows.
CINPooled(layer_size, k, split_half) ==
    IF split_half /\ k < Len(layer_size) THEN layer_size[k] \div 2 ELSE layer_size[k]

RECURSIVE CINOutWidthFrom(_, _, _)
CINOutWidthFrom(layer_size, k, split_half) ==
    IF k > Len(layer_size) THEN 0
    ELSE CINPooled(layer_size, k, split_half) + CINOutWidthFrom(layer_size, k + 1, split_half)

CINOutWidth(layer_size, split_half) == CINOutWidthFrom(layer_size, 1, split_half)

\* Contents of the tensors the sub-components return, as integers: each is a
\* function of the input batch and the parameter values; the DNN output also
\* depends on the dropout mask drawn for the call.
LinearLogit(p, X) == X + p + 1
DnnOut(p, X, mask) == 10 * (X + p + 1) - mask
CinLogit(p, X) == 100 * (X + p + 1)
CrossOut(p, X) == 1000 * (X + p + 1)

\* PredictionLayer (self.out): the output activation applied to the logit.
Out(final_logit) == [activation |-> "sigmoid", of |-> final_logit]

\* The dropout masks a DNN may draw in one call.
DropoutMasks(c) == IF c.dnn_dropout > 0 THEN {0, 1} ELSE {0}

\* --------------------------------------------------------------- if / elif
\* The branch an if/elif chain takes: the first whose guard is true, the
\* else branch (index 0) when none is.
FirstTrue(guards) ==
    IF \E i \in 1..Len(guards) : guards[i]
    THEN CHOOSE i \in 1..Len(guards) : guards[i] /\ \A j \in 1..(i - 1) : ~guards[j]
    ELSE 0

TakenBranch(guards, names) ==
    IF FirstTrue(guards) = 0 THEN "Error" ELSE names[FirstTrue(guards)]

\* What a forward call returns once its final logit is computed, or the
\* exception it raised before.
Returned(c, logit) == [c EXCEPT !.has_pred = TRUE, !.final_logit = logit, !.y_pred = Out(logit)]
Raised(c, e) == [c EXCEPT !.err = e]
StartCall(p, X) == [NoCall EXCEPT !.done = TRUE, !.X = X, !.params = p]

\* nn.Linear applied to a tensor whose width is not its in_features raises.
LinearAccepts(in_features, width) == in_features = width

\* --------------------------------------------------------------------- DCN
\* dcn.py 56-61: the local dnn_linear_in_feature, bound in three branches only.
dnn_linear_in_feature_always_bound(dnn_hidden_units, cross_num, D) ==
    IF Len(dnn_hidden_units) > 0 /\ cross_num > 0
    THEN [bound |-> TRUE, value |-> D + dnn_hidden_units[Len(dnn_hidden_units)]]
    ELSE IF Len(dnn_hidden_units) > 0
    THEN [bound |-> TRUE, value |-> dnn_hidden_units[Len(dnn_hidden_units)]]
    ELSE [bound |-> TRUE, value |-> D]

dnn_linear_in_feature_sized_for_deep_only(dnn_hidden_units, cross_num, D) ==
    IF Len(dnn_hidden_units) > 0
    THEN [bound |-> TRUE, value |-> dnn_hidden_units[Len(dnn_hidden_units)]]
    ELSE IF cross_num > 0
    THEN [bound |-> TRUE, value |-> D]
    ELSE [bound |-> FALSE, value |-> 0]

dnn_linear_in_feature(dnn_hidden_units, cross_num, D) ==
    IF Len(dnn_hidden_units) > 0 /\ cross_num > 0
    THEN [bound |-> TRUE, value |-> D + dnn_hidden_units[Len(dnn_hidden_units)]]
    ELSE IF Len(dnn_hidden_units) > 0
    THEN [bound |-> TRUE, value |-> dnn_hidden_units[Len(dnn_hidden_units)]]
    ELSE IF cross_num > 0
    THEN [bound |-> TRUE, value |-> D]
    ELSE [bound |-> FALSE, value |-> 0]

\* DCN.__init__
DCNInit(c) ==
    LET D == InputDim(c)
        lin == dnn_linear_in_feature(c.dnn_hidden_units, c.cross_num, D)
    IN IF ~lin.bound
       THEN [err |-> "UnboundLocalError", self |-> NoSelf]   \* line 63 reads the local
       ELSE [err |-> "none",
             self |-> [NoSelf EXCEPT
                 !.dnn_hidden_units = c.dnn_hidden_units,
                 !.cross_num = c.cross_num,
                 !.n_linear = 0,
                 !.n_dnn = NumDnnColumns(c),
                 !.dnn_inputs_dim = D,
                 !.dnn_linear_in_feature = lin.value,
                 !.has_crossnet = TRUE,
                 !.crossnet_layer_num = c.cross_num,
                 !.reg = {"dnn.weight", "dnn_linear.weight", "crossnet.kernels"}]]

\* dcn.py 80-92: the guards of the chain, in the order written.
DCNGuards_elif_swapped(dnn_hidden_units, cross_num) ==
    << Len(dnn_hidden_units) > 0 /\ cross_num > 0,
       cross_num > 0,
       Len(dnn_hidden_units) > 0 >>

DCNGuards_no_cross_test(dnn_hidden_units, cross_num) ==
    << Len(dnn_hidden_units) > 0,
       Len(dnn_hidden_units) > 0,
       cross_num > 0 >>

DCNGuards(dnn_hidden_units, cross_num) ==
    << Len(dnn_hidden_units) > 0 /\ cross_num > 0,
       Len(dnn_hidden_units) > 0,
       cross_num > 0 >>

DCNBranches == <<"DeepCross", "OnlyDeep", "OnlyCross">>

\* forward assigns locals only: the object is as it was.
DCNSelfAfterForward_writes_cross_num(s, branch) ==
    IF branch = "DeepCross" THEN [s EXCEPT !.cross_num = 0] ELSE s

DCNSelfAfterForward(s, branch) == s

\* DCN.forward
DCNForward(s, c, p, X, mask) ==
    LET D == InputDim(c)
        branch == TakenBranch(DCNGuards(s.dnn_hidden_units, s.cross_num), DCNBranches)
        deep_w == DNNOutWidth(D, s.dnn_hidden_units)
        c0 == [StartCall(p, X) EXCEPT !.reached_chain = TRUE, !.branch = branch]
        head(c1, width, logit) ==
            IF LinearAccepts(s.dnn_linear_in_feature, width)
            THEN Returned([c1 EXCEPT !.head_in_width = width,
                                     !.invoked = @ \cup {"dnn_linear"}], logit)
            ELSE Raised([c1 EXCEPT !.head_in_width = width], "RuntimeError")
    IN CASE branch = "DeepCross" ->
              head([c0 EXCEPT !.invoked = {"dnn", "crossnet"},
                              !.terms = {"cross_out", "deep_out"},
                              !.dnn_in_width = D,
                              !.dnn_logit = DnnOut(p, X, mask),
                              !.cross_out = CrossOut(p, X)],
                   D + deep_w, CrossOut(p, X) + DnnOut(p, X, mask))
         [] branch = "OnlyDeep" ->
              head([c0 EXCEPT !.invoked = {"dnn"},
                              !.terms = {"deep_out"},
                              !.dnn_in_width = D,
                              !.dnn_logit = DnnOut(p, X, mask)],
                   deep_w, DnnOut(p, X, mask))
         [] branch = "OnlyCross" ->
              head([c0 EXCEPT !.invoked = {"crossnet"},
                              !.terms = {"cross_out"},
                              !.cross_out = CrossOut(p, X)],
                   D, CrossOut(p, X))
         [] OTHER -> Raised(c0, "NotImplementedError")

\* ----------------------------------------------------------------- FiBiNET
\* FiBiNET.compute_input_dim
compute_input_dim_of_base_model(n_sparse, dense_dims, embedding_size, dense_only) ==
    IF dense_only THEN sum(dense_dims)
    ELSE n_sparse * embedding_size + sum(dense_dims)

compute_input_dim(n_sparse, dense_dims, embedding_size, dense_only) ==
    LET field_size == n_sparse
    IN IF dense_only THEN sum(dense_dims)
       ELSE field_size * (field_size - 1) * embedding_size + sum(dense_dims)

\* FiBiNET.__init__
FiBiNETInit(c) ==
    IF Len(c.dnn_hidden_units) = 0
    THEN [err |-> "IndexError", self |-> NoSelf]          \* line 58: dnn_hidden_units[-1]
    ELSE [err |-> "none",
          self |-> [NoSelf EXCEPT
              !.dnn_hidden_units = c.dnn_hidden_units,
              !.n_linear = c.n_linear,
              !.n_dnn = NumDnnColumns(c),
              !.filed_size = NumEmbeddings(c),
              !.dnn_inputs_dim =
                  compute_input_dim(c.n_sparse, c.dense_dims, c.embedding_size, FALSE),
              !.dnn_linear_in_feature = c.dnn_hidden_units[Len(c.dnn_hidden_units)]]]

\* fibinet.py 86-93
FiBiNETGuards(n_linear, n_dnn) ==
    << n_linear > 0 /\ n_dnn > 0,
       n_linear = 0,
       n_dnn = 0 >>

FiBiNETBranches == <<"LinearDnn", "OnlyDnn", "OnlyLinear">>

FiBiNETTerms_dnn_adds_linear(branch) ==
    CASE branch = "LinearDnn" -> {"linear_logit", "dnn_logit"}
      [] branch = "OnlyDnn" -> {"linear_logit", "dnn_logit"}
      [] branch = "OnlyLinear" -> {"linear_logit"}
      [] OTHER -> {}

FiBiNETTerms(branch) ==
    CASE branch = "LinearDnn" -> {"linear_logit", "dnn_logit"}
      [] branch = "OnlyDnn" -> {"dnn_logit"}
      [] branch = "OnlyLinear" -> {"linear_logit"}
      [] OTHER -> {}

\* The sum an assembler forms of the logits named in terms.
SumOfTerms(terms, linear_logit, dnn_logit, cin_logit) ==
    (IF "linear_logit" \in terms THEN linear_logit ELSE 0)
    + (IF "dnn_logit" \in terms THEN dnn_logit ELSE 0)
    + (IF "cin_logit" \in terms THEN cin_logit ELSE 0)

FiBiNETSelfAfterForward(s) == s

\* FiBiNET.forward
FiBiNETForward(s, c, p, X, mask) ==
    LET c0 == StartCall(p, X)
        bilinear_w == BilinearOutWidth(s.filed_size, c.embedding_size, c.bilinear_type)
        dnn_in == 2 * bilinear_w + sum(c.dense_dims)
        c1 == [c0 EXCEPT !.invoked = {"SE", "Bilinear", "linear_model"},
                         !.linear_logit = LinearLogit(p, X),
                         !.dnn_in_width = dnn_in]
        c2 == [c1 EXCEPT !.invoked = @ \cup {"dnn", "dnn_linear"},
                         !.dnn_logit = DnnOut(p, X, mask),
                         !.head_in_width = DNNOutWidth(dnn_in, s.dnn_hidden_units)]
        branch == TakenBranch(FiBiNETGuards(s.n_linear, s.n_dnn), FiBiNETBranches)
        c3 == [c2 EXCEPT !.reached_chain = TRUE, !.branch = branch,
                         !.terms = FiBiNETTerms(branch)]
    IN IF NumEmbeddings(c) = 0
       THEN Raised(c0, "RuntimeError")                     \* line 74: torch.cat of no tensors
       ELSE IF ~LinearAccepts(s.dnn_inputs_dim, dnn_in)
       THEN Raised(c1, "RuntimeError")                     \* line 83
       ELSE IF ~LinearAccepts(s.dnn_linear_in_feature, c2.head_in_width)
       THEN Raised(c2, "RuntimeError")                     \* line 84
       ELSE IF branch = "Error"
       THEN Raised(c3, "NotImplementedError")
       ELSE Returned(c3, SumOfTerms(c3.terms, c3.linear_logit, c3.dnn_logit, 0))

\* ----------------------------------------------------------------- xDeepFM
\* xdeepfm.py 51-55
featuremap_num_halves_last_too(cin_layer_size, cin_split_half) ==
    IF cin_split_half
    THEN IF Len(cin_layer_size) = 0
         THEN [err |-> "IndexError", value |-> 0]
         ELSE [err |-> "none",
               value |-> sum(cin_layer_size) \div 2 + cin_layer_size[Len(cin_layer_size)]]
    ELSE [err |-> "none", value |-> sum(cin_layer_size)]

featuremap_num(cin_layer_size, cin_split_half) ==
    IF cin_split_half
    THEN IF Len(cin_layer_size) = 0
         THEN [err |-> "IndexError", value |-> 0]          \* cin_layer_size[-1]
         ELSE [err |-> "none",
               value |-> sum(AllButLast(cin_layer_size)) \div 2
                         + cin_layer_size[Len(cin_layer_size)]]
    ELSE [err |-> "none", value |-> sum(cin_layer_size)]

\* xDeepFM.__init__
xDeepFMInit(c) ==
    LET fm == featuremap_num(c.cin_layer_size, c.cin_split_half)
    IN IF Len(c.dnn_hidden_units) = 0
       THEN [err |-> "IndexError", self |-> NoSelf]       \* line 47: dnn_hidden_units[-1]
       ELSE IF fm.err # "none"
       THEN [err |-> fm.err, self |-> NoSelf]
       ELSE [err |-> "none",
             self |-> [NoSelf EXCEPT
                 !.dnn_hidden_units = c.dnn_hidden_units,
                 !.cin_layer_size = c.cin_layer_size,
                 !.n_linear = c.n_linear,
                 !.n_dnn = NumDnnColumns(c),
                 !.filed_size = NumEmbeddings(c),
                 !.dnn_inputs_dim = InputDim(c),
                 !.dnn_linear_in_feature = c.dnn_hidden_units[Len(c.dnn_hidden_units)],
                 !.featuremap_num = fm.value,
                 !.has_cin = TRUE,
                 !.reg = {"dnn.weight", "dnn_linear.weight", "cin.weight"}]]

\* xdeepfm.py 83-92
xDeepFMGuards(dnn_hidden_units, cin_layer_size) ==
    << Len(dnn_hidden_units) = 0 /\ Len(cin_layer_size) = 0,
       Len(dnn_hidden_units) = 0 /\ Len(cin_layer_size) > 0,
       Len(dnn_hidden_units) > 0 /\ Len(cin_layer_size) = 0,
       Len(dnn_hidden_units) > 0 /\ Len(cin_layer_size) > 0 >>

xDeepFMBranches == <<"OnlyLinear", "LinearCIN", "LinearDeep", "LinearCINDeep">>

xDeepFMTerms(branch) ==
    CASE branch = "OnlyLinear" -> {"linear_logit"}
      [] branch = "LinearCIN" -> {"linear_logit", "cin_logit"}
      [] branch = "LinearDeep" -> {"linear_logit", "dnn_logit"}
      [] branch = "LinearCINDeep" -> {"linear_logit", "dnn_logit", "cin_logit"}
      [] OTHER -> {}

xDeepFMSelfAfterForward(s) == s

\* xDeepFM.forward
xDeepFMForward(s, c, p, X, mask) ==
    LET c0 == [StartCall(p, X) EXCEPT !.invoked = {"linear_model"},
                                      !.linear_logit = LinearLogit(p, X)]
        cin_w == CINOutWidth(s.cin_layer_size, c.cin_split_half)
        c1 == [c0 EXCEPT !.invoked = @ \cup {"cin"}, !.cin_out_width = cin_w]
        c2 == [c1 EXCEPT !.invoked = @ \cup {"cin_linear", "dnn", "dnn_linear"},
                         !.cin_logit = CinLogit(p, X),
                         !.dnn_in_width = InputDim(c),
                         !.dnn_logit = DnnOut(p, X, mask),
                         !.head_in_width = DNNOutWidth(InputDim(c), s.dnn_hidden_units)]
        branch == TakenBranch(xDeepFMGuards(s.dnn_hidden_units, s.cin_layer_size),
                              xDeepFMBranches)
        c3 == [c2 EXCEPT !.reached_chain = TRUE, !.branch = branch,
                         !.terms = xDeepFMTerms(branch)]
    IN IF NumEmbeddings(c) = 0
       THEN Raised(c0, "RuntimeError")                     \* line 75: torch.cat of no tensors
       ELSE IF ~LinearAccepts(s.featuremap_num, cin_w)
       THEN Raised(c1, "RuntimeError")                     \* line 77
       ELSE IF ~LinearAccepts(s.dnn_linear_in_feature, c2.head_in_width)
       THEN Raised(c2, "RuntimeError")                     \* line 81
       ELSE IF branch = "Error"
       THEN Raised(c3, "NotImplementedError")
       ELSE Returned(c3, SumOfTerms(c3.terms, c3.linear_logit, c3.dnn_logit, c3.cin_logit))

\* ------------------------------------------------------------ state machine
Init ==
    /\ kind = "none"
    /\ cfg = NoCfg
    /\ status = "none"
    /\ ctor_err = "none"
    /\ self = NoSelf
    /\ params = 0
    /\ call = NoCall
    /\ first_pred = NoPred
    /\ ever_invoked = {}

Constructed(k, c, r) ==
    /\ kind' = k
    /\ cfg' = c
    /\ status' = IF r.err = "none" THEN "constructed" ELSE "failed"
    /\ ctor_err' = r.err
    /\ self' = r.self
    /\ UNCHANGED <<params, call, first_pred, ever_invoked>>

\* DCN(dnn_feature_columns, embedding_size, cross_num, dnn_hidden_units, ...)
ConstructDCN ==
    /\ status = "none"
    /\ \E h \in HiddenUnitLists, cn \in 0..MaxCross, F \in 0..MaxFields,
          dd \in DenseColumns, E \in 1..MaxEmbed, dr \in DropoutRates :
          LET c == [NoCfg EXCEPT !.dnn_hidden_units = h, !.cross_num = cn,
                                 !.n_sparse = F, !.dense_dims = dd,
                                 !.embedding_size = E, !.dnn_dropout = dr]
          IN Constructed("DCN", c, DCNInit(c))

\* FiBiNET(linear_feature_columns, dnn_feature_columns, embedding_size, bilinear_type, ...)
ConstructFiBiNET ==
    /\ status = "none"
    /\ \E h \in HiddenUnitLists, L \in 0..MaxLinear, F \in 0..MaxFields,
          dd \in DenseColumns, E \in 1..MaxEmbed, bt \in BilinearTypes,
          dr \in DropoutRates :
          LET c == [NoCfg EXCEPT !.dnn_hidden_units = h, !.n_linear = L,
                                 !.n_sparse = F, !.dense_dims = dd,
                                 !.embedding_size = E, !.bilinear_type = bt,
                                 !.dnn_dropout = dr]
          IN Constructed("FiBiNET", c, FiBiNETInit(c))

\* xDeepFM(linear_feature_columns, dnn_feature_columns, embedding_size, dnn_hidden_units,
\*         cin_layer_size, cin_split_half, ...)
ConstructxDeepFM ==
    /\ status = "none"
    /\ \E h \in HiddenUnitLists, cl \in CinLayerSizes, sh \in BOOLEAN,
          F \in 0..MaxFields, dr \in DropoutRates :
          LET c == [NoCfg EXCEPT !.dnn_hidden_units = h, !.cin_layer_size = cl,
                                 !.cin_split_half = sh, !.n_sparse = F,
                                 !.embedding_size = DefaultEmbeddingSize,
                                 !.dnn_dropout = dr]
          IN Constructed("xDeepFM", c, xDeepFMInit(c))

Called(r, s) ==
    /\ call' = [r EXCEPT !.after_first = first_pred.seen]
    /\ self' = s
    /\ ever_invoked' = ever_invoked \cup r.invoked
    /\ first_pred' =
          IF r.has_pred /\ ~first_pred.seen
          THEN [seen |-> TRUE, X |-> r.X, params |-> r.params, y |-> r.y_pred]
          ELSE first_pred
    /\ UNCHANGED <<kind, cfg, status, ctor_err, params>>

ForwardDCN ==
    /\ status = "constructed" /\ kind = "DCN"
    /\ \E X \in Inputs, mask \in DropoutMasks(cfg) :
          LET r == DCNForward(self, cfg, params, X, mask)
          IN Called(r, DCNSelfAfterForward(self, r.branch))

ForwardFiBiNET ==
    /\ status = "constructed" /\ kind = "FiBiNET"
    /\ \E X \in Inputs, mask \in DropoutMasks(cfg) :
          Called(FiBiNETForward(self, cfg, params, X, mask), FiBiNETSelfAfterForward(self))

ForwardxDeepFM ==
    /\ status = "constructed" /\ kind = "xDeepFM"
    /\ \E X \in Inputs, mask \in DropoutMasks(cfg) :
          Called(xDeepFMForward(self, cfg, params, X, mask), xDeepFMSelfAfterForward(self))

\* The external optimizer updates the parameter values between forward calls.
OptimizerStep ==
    /\ status = "constructed"
    /\ params < MaxSteps
    /\ params' = params + 1
    /\ UNCHANGED <<kind, cfg, status, ctor_err, self, call, first_pred, ever_invoked>>

Next ==
    \/ ConstructDCN
    \/ ConstructFiBiNET
    \/ ConstructxDeepFM
    \/ ForwardDCN
    \/ ForwardFiBiNET
    \/ ForwardxDeepFM
    \/ OptimizerStep

Spec == Init /\ [][Next]_vars

TypeOK ==
    /\ kind \in Kinds \cup {"none"}
    /\ status \in {"none", "constructed", "failed"}
    /\ ctor_err \in {"none", "IndexError", "UnboundLocalError"}
    /\ params \in 0..MaxSteps
    /\ call.err \in {"none", "RuntimeError", "NotImplementedError"}
    /\ (status = "failed") = (ctor_err # "none")

\* ------------------------------------------------------------------ claims
EmptyHidden == Len(cfg.dnn_hidden_units) = 0

\* The chain of the constructed object's forward, as guards on its attributes.
GuardsOf ==
    CASE kind = "DCN" -> DCNGuards(self.dnn_hidden_units, self.cross_num)
      [] kind = "FiBiNET" -> FiBiNETGuards(self.n_linear, self.n_dnn)
      [] kind = "xDeepFM" -> xDeepFMGuards(self.dnn_hidden_units, self.cin_layer_size)
      [] OTHER -> <<>>

TrueGuards == {i \in 1..Len(GuardsOf) : GuardsOf[i]}

\* No interaction layers and no hidden units.
ZeroConfig ==
    /\ kind # "none"
    /\ EmptyHidden
    /\ kind = "DCN" => cfg.cross_num = 0
    /\ kind = "xDeepFM" => Len(cfg.cin_layer_size) = 0

\* C1: a configuration with zero interaction layers and an empty
\* dnn_hidden_units raises NotImplementedError, in every assembler: it raises
\* no other error and yields no prediction.
C1_ZeroConfigRaisesNotImplemented ==
    ZeroConfig =>
        /\ status = "failed" => ctor_err = "NotImplementedError"
        /\ call.done => call.err = "NotImplementedError" /\ ~call.has_pred

\* C2 as stated: wherever a forward call reaches the branch chain, exactly one
\* guard is true: at most one of the guards written on the non-error
\* branches, and the error branch is taken exactly when none is.
C2_GuardsMutuallyExclusive ==
    call.reached_chain =>
        /\ Cardinality(TrueGuards) <= 1
        /\ (call.branch = "Error") = (TrueGuards = {})

\* C2 as amended: every forward call that reaches the chain takes exactly one
\* branch, the first whose guard is true, and the error branch exactly when no
\* guard is true.  In terms of the constructor's arguments: DCN takes Deep &
\* Cross iff hidden units are given and cross_num > 0, only Deep iff hidden
\* units are given and cross_num = 0, only Cross iff no hidden units are given
\* and cross_num > 0; FiBiNET takes linear + dnn iff both column lists are
\* non-empty, dnn alone iff the linear list is empty, linear alone iff only
\* the dnn list is empty; xDeepFM's four guards are exclusive as written.
C2_FirstMatchingBranchTaken ==
    call.reached_chain =>
        LET h == Len(cfg.dnn_hidden_units) > 0
            cn == cfg.cross_num > 0
            ci == Len(cfg.cin_layer_size) > 0
            L == cfg.n_linear > 0
            D == NumDnnColumns(cfg) > 0
            b == call.branch
        IN /\ (b = "Error") = (TrueGuards = {})
           /\ b # "Error" => \E i \in TrueGuards :
                  /\ \A j \in TrueGuards : i <= j
                  /\ b = (CASE kind = "DCN" -> DCNBranches[i]
                            [] kind = "FiBiNET" -> FiBiNETBranches[i]
                            [] OTHER -> xDeepFMBranches[i])
           /\ kind = "DCN" =>
                  /\ (b = "DeepCross") = (h /\ cn)
                  /\ (b = "OnlyDeep") = (h /\ ~cn)
                  /\ (b = "OnlyCross") = (~h /\ cn)
                  /\ (b = "Error") = (~h /\ ~cn)
           /\ kind = "FiBiNET" =>
                  /\ (b = "LinearDnn") = (L /\ D)
                  /\ (b = "OnlyDnn") = ~L
                  /\ (b = "OnlyLinear") = (L /\ ~D)
           /\ kind = "xDeepFM" =>
                  /\ Cardinality(TrueGuards) = 1
                  /\ (b = "OnlyLinear") = (~h /\ ~ci)
                  /\ (b = "LinearCIN") = (~h /\ ci)
                  /\ (b = "LinearDeep") = (h /\ ~ci)
                  /\ (b = "LinearCINDeep") = (h /\ ci)

\* A DCN call that took Deep & Cross, where the only-Deep guard is true too.
C2_Witness ==
    /\ kind = "DCN" /\ call.has_pred /\ call.branch = "DeepCross"
    /\ Cardinality(TrueGuards) = 3

\* C3: a DCN with cross_num = 0 and hidden units is constructed, and no
\* forward call on it ever invokes the cross network: every call returns the
\* DNN output projected by dnn_linear (the only-Deep branch).
C3_CrossNetNeverInvoked ==
    (kind = "DCN" /\ cfg.cross_num = 0 /\ ~EmptyHidden) =>
        /\ status = "constructed"
        /\ "crossnet" \notin ever_invoked
        /\ call.done =>
              /\ call.has_pred /\ call.err = "none"
              /\ call.branch = "OnlyDeep"
              /\ call.invoked = {"dnn", "dnn_linear"}
              /\ call.terms = {"deep_out"}
              /\ call.final_logit = call.dnn_logit
              /\ call.head_in_width = cfg.dnn_hidden_units[Len(cfg.dnn_hidden_units)]

\* Such a DCN after a second forward call, on another batch than the first.
C3_Witness ==
    /\ kind = "DCN" /\ cfg.cross_num = 0 /\ ~EmptyHidden
    /\ call.has_pred /\ call.after_first /\ call.X # first_pred.X

\* Parameters of the cross network registered for regularization.
RegisteredCrossParams ==
    IF "crossnet.kernels" \in self.reg THEN self.crossnet_layer_num ELSE 0

\* C4: a DCN constructed with cross_num = 0 holds no CrossNet instance and
\* registers no cross-network parameters for regularization.
C4_NoCrossNetInstance ==
    (kind = "DCN" /\ status = "constructed" /\ cfg.cross_num = 0) =>
        /\ ~self.has_crossnet
        /\ RegisteredCrossParams = 0

\* In a split-half schedule every layer that is split has an even size.
SplitLayersEven ==
    cfg.cin_split_half =>
        \A k \in 1..(Len(cfg.cin_layer_size) - 1) : cfg.cin_layer_size[k] % 2 = 0

ActiveTerms ==
    CASE kind = "xDeepFM" ->
            {"linear_logit"}
            \cup (IF ~EmptyHidden THEN {"dnn_logit"} ELSE {})
            \cup (IF Len(cfg.cin_layer_size) > 0 THEN {"cin_logit"} ELSE {})
      [] kind = "FiBiNET" ->
            (IF cfg.n_linear > 0 THEN {"linear_logit"} ELSE {})
            \cup (IF NumDnnColumns(cfg) > 0 THEN {"dnn_logit"} ELSE {})
      [] OTHER -> {}

\* C6: in xDeepFM and FiBiNET the final logit of every prediction is the sum
\* of the logits of exactly the configured components: linear always, dnn iff
\* hidden units are given, cin iff CIN layers are given (xDeepFM); linear iff
\* linear columns are given, dnn iff dnn columns are given (FiBiNET).
C6_FinalLogitSumsActiveComponents ==
    (kind \in {"xDeepFM", "FiBiNET"} /\ call.has_pred) =>
        /\ call.terms = ActiveTerms
        /\ call.final_logit =
              (IF "linear_logit" \in ActiveTerms THEN call.linear_logit ELSE 0)
              + (IF "dnn_logit" \in ActiveTerms THEN call.dnn_logit ELSE 0)
              + (IF "cin_logit" \in ActiveTerms THEN call.cin_logit ELSE 0)

\* A FiBiNET without linear columns has returned a prediction.
C6_Witness ==
    kind = "FiBiNET" /\ call.has_pred /\ cfg.n_linear = 0 /\ call.linear_logit # 0

\* C7: with an empty dnn_hidden_units, DCN with cross_num > 0, FiBiNET, and
\* xDeepFM with CIN layers are constructed, and forward returns a prediction
\* that leaves the deep part out.
C7_EmptyHiddenUnitsAccepted ==
    (kind # "none" /\ EmptyHidden
        /\ (kind = "DCN" => cfg.cross_num > 0)
        /\ (kind = "xDeepFM" => Len(cfg.cin_layer_size) > 0)) =>
        /\ status = "constructed"
        /\ call.has_pred =>
              /\ kind = "DCN" => call.branch = "OnlyCross"
              /\ kind = "xDeepFM" => call.branch = "LinearCIN"

ConfigurationErrors == {"NotImplementedError", "IndexError", "UnboundLocalError"}

C9_FiBiNETDnnInputWidth ==
    (kind = "FiBiNET" /\ "Bilinear" \in call.invoked) =>
        LET F == cfg.n_sparse
            E == cfg.embedding_size
        IN /\ self.dnn_inputs_dim = call.dnn_in_width
           /\ self.dnn_inputs_dim = F * (F - 1) * E + sum(cfg.dense_dims)
           /\ call.dnn_in_width = 2 * (((F * (F - 1)) \div 2) * E) + sum(cfg.dense_dims)
           /\ "dnn" \in call.invoked
           /\ \A bt \in BilinearTypes :
                  BilinearOutWidth(F, E, bt) = ((F * (F - 1)) \div 2) * E

\* A FiBiNET of three fields and policy 'each' has returned a prediction.
C9_Witness ==
    /\ kind = "FiBiNET" /\ call.has_pred
    /\ cfg.n_sparse = 3 /\ cfg.bilinear_type = "each" /\ Len(cfg.dense_dims) > 0

\* The last call repeats the input and parameter values of the first.
RepeatsFirst ==
    /\ call.has_pred /\ call.after_first /\ first_pred.seen
    /\ call.X = first_pred.X /\ call.params = first_pred.params

C11_DnnLinearWidthMatchesForward ==
    (kind = "DCN" /\ status = "constructed") =>
        LET D == cfg.n_sparse * cfg.embedding_size + sum(cfg.dense_dims)
            h == cfg.dnn_hidden_units
            last == IF Len(h) > 0 THEN h[Len(h)] ELSE 0
            expected == IF Len(h) > 0 /\ cfg.cross_num > 0 THEN D + last
                        ELSE IF Len(h) > 0 THEN last
                        ELSE D
        IN /\ self.dnn_linear_in_feature = expected
           /\ call.done =>
                 /\ call.err = "none" /\ call.has_pred
                 /\ call.head_in_width = self.dnn_linear_in_feature
                 /\ (call.branch = "DeepCross") = (Len(h) > 0 /\ cfg.cross_num > 0)
                 /\ (call.branch = "OnlyDeep") = (Len(h) > 0 /\ cfg.cross_num = 0)
                 /\ (call.branch = "OnlyCross") = (Len(h) = 0 /\ cfg.cross_num > 0)

\* A Deep & Cross DCN of two hidden layers and a non-empty input has returned
\* a prediction.
C11_Witness ==
    /\ kind = "DCN" /\ call.has_pred /\ call.branch = "DeepCross"
    /\ Len(cfg.dnn_hidden_units) = 2 /\ cfg.n_sparse > 0 /\ Len(cfg.dense_dims) > 0
    /\ call.head_in_width > cfg.dnn_hidden_units[2]

====
